---- MODULE Spec2Model ----
(***************************************************************************)
(* Key registry (internal/rkey) and sorted-set algebra (internal/rzset)    *)
(* of redka, as a state machine over the two relations rkey and rzset.     *)
(*                                                                         *)
(* Every handler is one action.  A handler that reads the clock several    *)
(* times takes one reading per read, non-decreasing, as inputs.  The       *)
(* store forms of intersect/union are the one exception: they run inside   *)
(* a write transaction that other clients can observe from outside, so     *)
(* they are split at their three statements.                               *)
(***************************************************************************)
EXTENDS Integers, Sequences, FiniteSets, TLC

VARIABLES
    db,     \* committed database: [rkey, rzset, seq]
    now,    \* wall clock, milliseconds
    tx,     \* the open write transaction: [open, db] (db = its working copy)
    st,     \* the Store call in progress (InterCmd.Store / UnionCmd.Store)
    obs,    \* what a reader in another transaction last saw
    sc,     \* the Scanner
    it,     \* bookkeeping of the scan iteration (pages seen so far)
    last    \* the last completed call: its arguments, pre-state and result

vars == <<db, now, tx, st, obs, sc, it, last>>

----------------------------------------------------------------------------
(* Bounds of the model *)

MaxTime == 2

MaxVersion == 3

MaxId == 4

(* Program constants *)

scanPageSize == 10

InitialVersion == 1

NULL == 0

Names == {"a", "ab", "b"}

Chars == ("a" :> <<"a">>) @@ ("ab" :> <<"a", "b">>) @@ ("b" :> <<"b">>)

TypeSortedSet == "zset"

TypeString == "string"

Types == {TypeString, TypeSortedSet}

Times == 1..MaxTime

EmptyKey ==
    [id |-> 0, key |-> "", type |-> "", version |-> 0, etime |-> NULL, mtime |-> 0]

Exists(k) == k.id # 0

----------------------------------------------------------------------------
(* The relational store *)

\* the visibility filter every statement carries: etime is null or etime > :now
Live(r, t) == r.etime = NULL \/ r.etime > t

LiveRows(d, t) == {r \in d.rkey : Live(r, t)}

\* delete from rkey ... ; rzset rows go with their key (on delete cascade)
DeleteRows(d, ids) ==
    [d EXCEPT !.rkey = {r \in @ : r.id \notin ids},
              !.rzset = {m \in @ : m.key_id \notin ids}]

SqlGet(d, key, t) == {r \in d.rkey : r.key = key /\ Live(r, t)}

Get(d, key, t) ==
    LET rows == SqlGet(d, key, t)
    IN  IF rows = {} THEN EmptyKey ELSE CHOOSE r \in rows : TRUE

Count(d, keys, t) == Cardinality({r \in d.rkey : r.key \in keys /\ Live(r, t)})

\* a delete that forgets the visibility filter
SqlDeleteAnyRow(d, keys, t) == {r.id : r \in {x \in d.rkey : x.key \in keys}}

SqlDelete(d, keys, t) == {r.id : r \in {x \in d.rkey : x.key \in keys /\ Live(x, t)}}

Delete(d, keys, t) ==
    LET ids == SqlDelete(d, keys, t)
    IN  [db |-> DeleteRows(d, ids), n |-> Cardinality(ids)]

\* a delete-by-type that forgets the type filter
SqlDeleteAnyType(d, typ, keys, t) ==
    {r.id : r \in {x \in d.rkey : x.key \in keys /\ Live(x, t)}}

SqlDeleteType(d, typ, keys, t) ==
    {r.id : r \in {x \in d.rkey : x.key \in keys /\ Live(x, t) /\ x.type = typ}}

DeleteType(d, typ, keys, t) ==
    LET ids == SqlDeleteType(d, typ, keys, t)
    IN  [db |-> DeleteRows(d, ids), n |-> Cardinality(ids)]

\* a rename that forgets the version bump
SqlRenameSameVersion(d, key, newKey, t) ==
    LET old == {r \in d.rkey : r.key = key /\ Live(r, t)}
    IN  IF old = {} THEN d
        ELSE LET o == CHOOSE r \in old : TRUE
                 n == [o EXCEPT !.key = newKey, !.mtime = t]
                 clash == {r.id : r \in {x \in d.rkey : x.key = newKey /\ x.id # o.id}}
                 d1 == DeleteRows(d, clash)
             IN  [d1 EXCEPT !.rkey = (@ \ {o}) \cup {n}]

\* update or replace rkey set id = old.id, key = :new_key, type = old.type,
\* version = old.version+1, etime = old.etime, mtime = :now ... : the row that
\* holds :new_key (live or not) is replaced
SqlRename(d, key, newKey, t) ==
    LET old == {r \in d.rkey : r.key = key /\ Live(r, t)}
    IN  IF old = {} THEN d
        ELSE LET o == CHOOSE r \in old : TRUE
                 n == [o EXCEPT !.key = newKey, !.version = @ + 1, !.mtime = t]
                 clash == {r.id : r \in {x \in d.rkey : x.key = newKey /\ x.id # o.id}}
                 d1 == DeleteRows(d, clash)
             IN  [d1 EXCEPT !.rkey = (@ \ {o}) \cup {n}]

\* a rename that deletes the new key before it looks for the old one
RenameDeletesFirst(d, key, newKey, t1, t2, t3) ==
    LET d1 == Delete(d, {newKey}, t2).db
        oldK == Get(d1, key, t1)
    IN  IF ~Exists(oldK) THEN [db |-> d1, err |-> "ErrNotFound"]
        ELSE IF key = newKey THEN [db |-> d1, err |-> "nil"]
        ELSE [db |-> SqlRename(d1, key, newKey, t3), err |-> "nil"]

\* Tx.Rename: Get at t1, Delete at t2, the update at t3
Rename(d, key, newKey, t1, t2, t3) ==
    LET oldK == Get(d, key, t1)
    IN  IF ~Exists(oldK) THEN [db |-> d, err |-> "ErrNotFound"]
        ELSE IF key = newKey THEN [db |-> d, err |-> "nil"]
        ELSE [db |-> SqlRename(Delete(d, {newKey}, t2).db, key, newKey, t3),
              err |-> "nil"]

\* a rename-if-absent that never looks at the new key
RenameNotExistsUnchecked(d, key, newKey, t1, t2, t3) ==
    LET oldK == Get(d, key, t1)
    IN  IF ~Exists(oldK) THEN [db |-> d, ok |-> FALSE, err |-> "ErrNotFound"]
        ELSE IF key = newKey THEN [db |-> d, ok |-> FALSE, err |-> "nil"]
        ELSE [db |-> SqlRename(d, key, newKey, t3), ok |-> TRUE, err |-> "nil"]

\* Tx.RenameNotExists: Get at t1, Exists at t2, the update at t3
RenameNotExists(d, key, newKey, t1, t2, t3) ==
    LET oldK == Get(d, key, t1)
    IN  IF ~Exists(oldK) THEN [db |-> d, ok |-> FALSE, err |-> "ErrNotFound"]
        ELSE IF key = newKey THEN [db |-> d, ok |-> FALSE, err |-> "nil"]
        ELSE IF Count(d, {newKey}, t2) > 0 THEN [db |-> d, ok |-> FALSE, err |-> "nil"]
        ELSE [db |-> SqlRename(d, key, newKey, t3), ok |-> TRUE, err |-> "nil"]

\* an update of etime that forgets the visibility filter
SqlSetETimeAnyRow(d, key, etime, t) ==
    LET rows == {r \in d.rkey : r.key = key}
    IN  [db |-> [d EXCEPT !.rkey = (@ \ rows) \cup {[r EXCEPT !.etime = etime] : r \in rows}],
         n |-> Cardinality(rows)]

\* sqlExpire / sqlPersist: update rkey set etime = ... where key = :key and
\* (etime is null or etime > :now); n is RowsAffected
SqlSetETime(d, key, etime, t) ==
    LET rows == {r \in d.rkey : r.key = key /\ Live(r, t)}
    IN  [db |-> [d EXCEPT !.rkey = (@ \ rows) \cup {[r EXCEPT !.etime = etime] : r \in rows}],
         n |-> Cardinality(rows)]

\* Tx.ExpireAt
ExpireAt(d, key, at, t) ==
    LET r == SqlSetETime(d, key, at, t) IN [db |-> r.db, ok |-> r.n > 0]

\* Tx.Expire: at := time.Now().Add(ttl), read at t0; ExpireAt reads the clock at t
Expire(d, key, ttl, t0, t) == ExpireAt(d, key, t0 + ttl, t)

\* Tx.Persist
Persist(d, key, t) ==
    LET r == SqlSetETime(d, key, NULL, t) IN [db |-> r.db, ok |-> r.n > 0]

\* where etime <= :now (a null etime is not <= anything)
ExpiredRows(d, t) == {r \in d.rkey : r.etime # NULL /\ r.etime <= t}

\* a reaper that takes every expired row whatever the limit
SqlDeleteNExpiredNoLimit(d, n, t) == {{r.id : r \in ExpiredRows(d, t)}}

\* sqlDeleteNExpired: the rowids of select rowid from rkey where etime <= :now
\* limit :n, with no order by: any n of the expired rows, all when fewer
SqlDeleteNExpired(d, n, t) ==
    LET ids == {r.id : r \in ExpiredRows(d, t)}
        k == IF Cardinality(ids) < n THEN Cardinality(ids) ELSE n
    IN  {S \in SUBSET ids : Cardinality(S) = k}

\* sqlDeleteAllExpired
SqlDeleteAllExpired(d, t) == {r.id : r \in ExpiredRows(d, t)}

\* Tx.deleteExpired: the outcomes it can have
deleteExpired(d, n, t) ==
    {[db |-> DeleteRows(d, ids), count |-> Cardinality(ids)] :
        ids \in IF n > 0 THEN SqlDeleteNExpired(d, n, t)
                ELSE {SqlDeleteAllExpired(d, t)}}

----------------------------------------------------------------------------
(* Sorted-set algebra: the query forms *)

Sum == "sum"

Min == "min"

Max == "max"

Aggregates == {Sum, Min, Max}

\* element bytes in their byte order
Elems == <<"m", "n", "z">>

ElemRank(e) == CHOOSE i \in 1..Len(Elems) : Elems[i] = e

Range(s) == {s[i] : i \in 1..Len(s)}

RECURSIVE SumScores(_)
SumScores(S) ==
    IF S = {} THEN 0
    ELSE LET m == CHOOSE x \in S : TRUE IN m.score + SumScores(S \ {m})

MinScore(S) == CHOOSE v \in {m.score : m \in S} : \A m \in S : v <= m.score

MaxScore(S) == CHOOSE v \in {m.score : m \in S} : \A m \in S : v >= m.score

\* sum(score), or the token strings.Replace put in its place
Aggregate(agg, S) ==
    IF agg = Sum THEN SumScores(S)
    ELSE IF agg = Min THEN MinScore(S)
    ELSE MaxScore(S)

\* strings.Replace(query, sqlx.Sum, c.aggregate, 2): the token of the select
\* list and the token of the order by clause
ReplaceSum(agg) == [sel |-> agg, ord |-> agg]

\* from rzset join rkey on key_id = rkey.id and (etime is null or etime > :now)
\* where key in (:keys)
Joined(d, keys, t) ==
    {m \in d.rzset :
        \E r \in d.rkey : r.id = m.key_id /\ Live(r, t) /\ r.key \in Range(keys)}

\* group by elem
Group(rows, e) == {m \in rows : m.elem = e}

GroupItem(tok, g, e) ==
    [elem |-> e, score |-> Aggregate(tok.sel, g), ord |-> Aggregate(tok.ord, g)]

ItemBefore(x, y) ==
    \/ x.ord < y.ord
    \/ x.ord = y.ord /\ ElemRank(x.elem) <= ElemRank(y.elem)

\* order by sum(score), elem
RECURSIVE OrderItems(_)
OrderItems(S) ==
    IF S = {} THEN <<>>
    ELSE LET x == CHOOSE a \in S : \A b \in S : ItemBefore(a, b)
         IN  <<[elem |-> x.elem, score |-> x.score]>> \o OrderItems(S \ {x})

\* an intersection that forgets the having clause
SqlInterNoHaving(d, keys, agg, t) ==
    LET rows == Joined(d, keys, t)
        tok == ReplaceSum(agg)
    IN  OrderItems({GroupItem(tok, Group(rows, e), e) : e \in {m.elem : m \in rows}})

\* sqlInter: ... group by elem having count(distinct key_id) = :nkeys
SqlInter(d, keys, agg, t) ==
    LET rows == Joined(d, keys, t)
        tok == ReplaceSum(agg)
    IN  OrderItems({GroupItem(tok, Group(rows, e), e) :
            e \in {x \in {m.elem : m \in rows} :
                     Cardinality({m.key_id : m \in Group(rows, x)}) = Len(keys)}})

\* a union that keeps only the elements found in every listed key
SqlUnionAllKeys(d, keys, agg, t) ==
    LET rows == Joined(d, keys, t)
        tok == ReplaceSum(agg)
    IN  OrderItems({GroupItem(tok, Group(rows, e), e) :
            e \in {x \in {m.elem : m \in rows} :
                     Cardinality({m.key_id : m \in Group(rows, x)})
                        = Cardinality(Range(keys))}})

\* sqlUnion: ... group by elem
SqlUnion(d, keys, agg, t) ==
    LET rows == Joined(d, keys, t)
        tok == ReplaceSum(agg)
    IN  OrderItems({GroupItem(tok, Group(rows, e), e) : e \in {m.elem : m \in rows}})

Inter == "inter"

Union == "union"

\* InterCmd.inter / UnionCmd.union
Query(d, kind, keys, agg, t) ==
    IF kind = Inter THEN SqlInter(d, keys, agg, t) ELSE SqlUnion(d, keys, agg, t)

----------------------------------------------------------------------------
(* Sorted-set ranges *)

Asc == "asc"

Desc == "desc"

SortDirs == {Asc, Desc}

\* strings.Replace(query, sqlx.Asc, c.sortDir, -1): every asc of the statement,
\* those of the window and those of the final order by
ReplaceAsc(dir) == [winScore |-> dir, winElem |-> dir, ordRank |-> dir, ordElem |-> dir]

\* from rzset join rkey on key_id = rkey.id and (etime is null or etime > :now)
\* where key = :key
KeyRows(d, key, t) ==
    {m \in d.rzset : \E r \in d.rkey : r.id = m.key_id /\ Live(r, t) /\ r.key = key}

\* order by score <scoreDir>, elem <elemDir>
RowBefore(x, y, scoreDir, elemDir) ==
    \/ x.score # y.score /\ (IF scoreDir = Asc THEN x.score < y.score ELSE x.score > y.score)
    \/ /\ x.score = y.score
       /\ x.elem # y.elem
       /\ IF elemDir = Asc THEN ElemRank(x.elem) < ElemRank(y.elem)
          ELSE ElemRank(x.elem) > ElemRank(y.elem)

\* row_number() over w - 1, window w as (partition by key_id order by score, elem)
Ranked(rows, tok) ==
    {[elem |-> x.elem, score |-> x.score,
      rank |-> Cardinality({y \in rows : RowBefore(y, x, tok.winScore, tok.winElem)})] :
        x \in rows}

\* order by rank <ordRank>, elem <ordElem>
RankBefore(x, y, tok) ==
    \/ x.rank # y.rank /\ (IF tok.ordRank = Asc THEN x.rank < y.rank ELSE x.rank > y.rank)
    \/ /\ x.rank = y.rank
       /\ x.elem # y.elem
       /\ IF tok.ordElem = Asc THEN ElemRank(x.elem) < ElemRank(y.elem)
          ELSE ElemRank(x.elem) > ElemRank(y.elem)

\* sqlRangeRank
SqlRangeRank(d, key, start, stop, dir, t) ==
    LET tok == ReplaceAsc(dir)
        sel == {x \in Ranked(KeyRows(d, key, t), tok) : start <= x.rank /\ x.rank <= stop}
    IN  [i \in 1..Cardinality(sel) |->
            LET x == CHOOSE a \in sel :
                        Cardinality({b \in sel : RankBefore(b, a, tok)}) = i - 1
            IN  [elem |-> x.elem, score |-> x.score]]

\* RangeCmd.rangeRank
RangeRank(d, key, start, stop, dir, t) ==
    IF start < 0 \/ stop < 0 THEN <<>>
    ELSE SqlRangeRank(d, key, start, stop, dir, t)

\* sqlRangeScore: ... and score between :start and :stop
\* order by score asc, elem asc, both asc replaced by the direction
SqlRangeScore(d, key, lo, hi, dir, t) ==
    LET sel == {x \in KeyRows(d, key, t) : lo <= x.score /\ x.score <= hi}
    IN  [i \in 1..Cardinality(sel) |->
            LET x == CHOOSE a \in sel :
                        Cardinality({b \in sel : RowBefore(b, a, dir, dir)}) = i - 1
            IN  [elem |-> x.elem, score |-> x.score]]

\* limit :offset, :count (a count of -1 is no limit)
Limit(items, offset, count) ==
    LET last_ == IF count < 0 \/ offset + count > Len(items)
                 THEN Len(items) ELSE offset + count
    IN  SubSeq(items, offset + 1, last_)

\* a limit clause that is left out whenever count is not positive
LimitClauseNeedsCount(items, offset, count) ==
    IF offset > 0 /\ count > 0 THEN Limit(items, offset, count)
    ELSE IF count > 0 THEN Limit(items, 0, count)
    ELSE items

\* RangeCmd.rangeScore: the limit clause added to the statement
LimitClause(items, offset, count) ==
    IF offset > 0 /\ count > 0 THEN Limit(items, offset, count)
    ELSE IF count > 0 THEN Limit(items, 0, count)
    ELSE IF offset > 0 THEN Limit(items, offset, 0 - 1)
    ELSE items

\* RangeCmd.rangeScore
RangeScore(d, key, lo, hi, dir, offset, count, t) ==
    LimitClause(SqlRangeScore(d, key, lo, hi, dir, t), offset, count)

----------------------------------------------------------------------------
(* Sorted-set algebra: the store forms *)

\* a first store statement that hands out an id and inserts no row
SqlStore1NoRow(d, dest, t) ==
    IF \E r \in d.rkey : r.key = dest
    THEN [db |-> d, id |-> 0, err |-> "unique"]
    ELSE [db |-> [d EXCEPT !.seq = @ + 1], id |-> d.seq + 1, err |-> "nil"]

\* sqlInterStore1 / sqlUnionStore1: insert into rkey (key, type, version, mtime)
\* values (...) returning id.  rkey.key is unique over all rows, live or not.
SqlStore1(d, dest, t) ==
    IF \E r \in d.rkey : r.key = dest
    THEN [db |-> d, id |-> 0, err |-> "unique"]
    ELSE [db |-> [d EXCEPT
                    !.rkey = @ \cup {[id |-> d.seq + 1, key |-> dest,
                                      type |-> TypeSortedSet,
                                      version |-> InitialVersion,
                                      etime |-> NULL, mtime |-> t]},
                    !.seq = @ + 1],
          id |-> d.seq + 1, err |-> "nil"]

\* sqlx.TypedError: a unique-constraint violation is the wrong-type error
TypedError(err) == IF err = "unique" THEN "ErrKeyType" ELSE err

\* a store statement whose aggregate token was never substituted
SqlStore2AlwaysSum(d, kind, keyID, keys, agg, t) ==
    LET items == Query(d, kind, keys, Sum, t)
    IN  [db |-> [d EXCEPT !.rzset = @ \cup
                    {[key_id |-> keyID, elem |-> items[i].elem,
                      score |-> items[i].score] : i \in 1..Len(items)}],
         n |-> Len(items)]

\* sqlInterStore2 / sqlUnionStore2: insert into rzset (key_id, elem, score)
\* select :key_id, elem, sum(score) ... ; n is RowsAffected
SqlStore2(d, kind, keyID, keys, agg, t) ==
    LET items == Query(d, kind, keys, agg, t)
    IN  [db |-> [d EXCEPT !.rzset = @ \cup
                    {[key_id |-> keyID, elem |-> items[i].elem,
                      score |-> items[i].score] : i \in 1..Len(items)}],
         n |-> Len(items)]

\* InterCmd.store / UnionCmd.store on a transaction whose state is d: DeleteType
\* at t1, the two inserts at t2; fail = the third statement fails in the store.
\* db is the transaction's state when store returns.
Store(d, c, t1, t2, fail) ==
    LET d1 == DeleteType(d, TypeSortedSet, {c.dest}, t1).db
        i == SqlStore1(d1, c.dest, t2)
    IN  IF i.err # "nil" THEN [db |-> d1, n |-> 0, err |-> TypedError(i.err)]
        ELSE IF fail THEN [db |-> i.db, n |-> 0, err |-> "ErrStore"]
        ELSE LET m == SqlStore2(i.db, c.kind, i.id, c.keys, c.agg, t2)
             IN  [db |-> m.db, n |-> m.n, err |-> "nil"]

\* DB.Update: commit when fn returns nil, roll back otherwise
Update(d, work, err) == IF err = "nil" THEN work ELSE d

\* a Store that runs c.store on the plain database handle, as Run does
StoreOnPlainHandle(h) == FALSE

\* InterCmd.Store / UnionCmd.Store: with a database handle, c.store runs inside
\* c.db.Update; with a transaction handle, inside the caller's transaction
UsesUpdate(h) == h = "db"

\* a closure that drops the error of c.store
UpdateFnDropsError(err) == "nil"

\* the closure given to Update: count, err = c.store(tx.tx); return err
UpdateFn(err) == err

KeyLists == {<<"a">>, <<"a", "ab">>, <<"a", "b">>}

Cmds == [kind : {Inter, Union}, dest : {"b"}, keys : KeyLists, agg : Aggregates]

Handles == {"db", "tx"}

\* what a statement of the running call reads and writes
Working == IF tx.open THEN tx.db ELSE db

Write(d) ==
    IF tx.open THEN tx' = [tx EXCEPT !.db = d] /\ db' = db
    ELSE db' = d /\ tx' = tx

Members(d, id) == {[elem |-> m.elem, score |-> m.score] : m \in {x \in d.rzset : x.key_id = id}}

\* the destination as a reader sees it at time t
DestView(d, key, t) ==
    LET k == Get(d, key, t) IN [rec |-> k, members |-> Members(d, k.id)]

\* the rows that hold a name, live or not, with their members
DestRaw(d, key) ==
    {[rec |-> r, members |-> Members(d, r.id)] : r \in {x \in d.rkey : x.key = key}}

\* the live records with their members
LiveView(d, t) == {[rec |-> r, members |-> Members(d, r.id)] : r \in LiveRows(d, t)}

\* the same database with the rows expired at t physically absent
Purge(d, t) == DeleteRows(d, {r.id : r \in {x \in d.rkey : ~Live(x, t)}})

----------------------------------------------------------------------------
(* Scan and the Scanner *)

Patterns == {"*", "a*", "?"}

PatChars == ("*" :> <<"*">>) @@ ("a*" :> <<"a", "*">>) @@ ("?" :> <<"?">>)

\* key glob :pattern, on the characters: * any sequence, ? any one character
RECURSIVE GlobChars(_, _)
GlobChars(p, s) ==
    IF p = <<>> THEN s = <<>>
    ELSE IF Head(p) = "*"
         THEN GlobChars(Tail(p), s) \/ (s # <<>> /\ GlobChars(p, Tail(s)))
         ELSE /\ s # <<>>
              /\ Head(p) = "?" \/ Head(p) = Head(s)
              /\ GlobChars(Tail(p), Tail(s))

Glob(pattern, key) == GlobChars(PatChars[pattern], Chars[key])

MaxOf(S) == IF S = {} THEN 0 ELSE CHOOSE v \in S : \A w \in S : v >= w

\* where id > :cursor and key glob :pattern and (etime is null or etime > :now)
ScanRows(d, cursor, pattern, t) ==
    {r \in d.rkey : r.id > cursor /\ Glob(pattern, r.key) /\ Live(r, t)}

\* sqlScan: ... limit :count, with no order by: any count of the rows (all of
\* them when there are fewer), in any order
SqlScan(d, cursor, pattern, t, count) ==
    LET rows == ScanRows(d, cursor, pattern, t)
        k == IF Cardinality(rows) < count THEN Cardinality(rows) ELSE count
    IN  {f \in [1..k -> rows] : \A i \in 1..k, j \in 1..k : f[i] = f[j] => i = j}

\* Tx.Scan: the results it can return
Scan(d, cursor, pattern, pageSize, t) ==
    LET count == IF pageSize = 0 THEN scanPageSize ELSE pageSize
    IN  {[Cursor |-> MaxOf({keys[i].id : i \in 1..Len(keys)}), Keys |-> keys] :
            keys \in SqlScan(d, cursor, pattern, t, count)}

\* newScanner
newScanner(pattern, pageSize) ==
    [made |-> TRUE, cursor |-> 0, pattern |-> pattern,
     pageSize |-> IF pageSize = 0 THEN scanPageSize ELSE pageSize,
     index |-> 0, cur |-> EmptyKey, keys |-> <<>>, err |-> "nil"]

\* Scanner.Scan when the page fetch fails with err
ScannerFetchFailed(s, err) == [sc |-> [s EXCEPT !.err = err], ret |-> FALSE]

\* Scanner.Scan when the page fetch returns out
ScannerFetched(s, out) ==
    LET s1 == [s EXCEPT !.cursor = out.Cursor, !.keys = out.Keys, !.index = 0]
    IN  IF Len(s1.keys) = 0 THEN [sc |-> s1, ret |-> FALSE]
        ELSE [sc |-> [s1 EXCEPT !.cur = s1.keys[1], !.index = 1], ret |-> TRUE]

\* Scanner.Scan on a page that still has keys
ScannerAdvance(s) ==
    [sc |-> [s EXCEPT !.cur = s.keys[s.index + 1], !.index = @ + 1], ret |-> TRUE]

StoreErrors == {"e1", "e2"}

----------------------------------------------------------------------------
(* Initial registries *)

ETimes == {NULL} \cup Times

InitRow(i, k, ty, e) ==
    [id |-> i, key |-> k, type |-> ty, version |-> InitialVersion,
     etime |-> e, mtime |-> 1]

InitMembers(rows) ==
    {[key_id |-> r.id, elem |-> "m", score |-> 1] : r \in {x \in rows : x.type = TypeSortedSet}}

\* "a" and "b" each absent or present with any type and expiry; "ab" free
KeyInitDBs ==
    {[rkey |-> ra \cup rb, rzset |-> InitMembers(ra \cup rb), seq |-> 2] :
        ra \in {{}} \cup {{InitRow(1, "a", ty, e)} : ty \in Types, e \in ETimes},
        rb \in {{}} \cup {{InitRow(2, "b", ty, e)} : ty \in Types, e \in ETimes}}

NoTx == [open |-> FALSE, db |-> [rkey |-> {}, rzset |-> {}, seq |-> 0]]

NoStore == [pc |-> "idle"]

NoObs == [at |-> "none"]

NoScanner == [made |-> FALSE]

NoIter == [on |-> FALSE]

NoCall == [op |-> "none"]

Init ==
    /\ db \in KeyInitDBs
    /\ now = 1
    /\ tx = NoTx
    /\ st = NoStore
    /\ obs = NoObs
    /\ sc = NoScanner
    /\ it = NoIter
    /\ last = NoCall

----------------------------------------------------------------------------
(* Registry handlers, each in a transaction of its own *)

\* the name lists given to Delete and DeleteType
KeySets == {{"a"}, {"b"}, {"a", "b"}, {"a", "ab", "b"}}

VersionRoom(d, key) == \A r \in d.rkey : r.key = key => r.version < MaxVersion

DoRename(key, newKey) ==
    /\ VersionRoom(db, key)
    /\ \E t1 \in now..MaxTime : \E t2 \in t1..MaxTime : \E t3 \in t2..MaxTime :
         LET r == Rename(db, key, newKey, t1, t2, t3)
         IN  /\ db' = r.db
             /\ now' = t3
             /\ last' = [op |-> "Rename", key |-> key, newKey |-> newKey,
                         pre |-> db, t1 |-> t1, t2 |-> t2, t3 |-> t3, err |-> r.err]
    /\ UNCHANGED <<tx, st, obs, sc, it>>

DoDelete(keys) ==
    /\ \E t \in now..MaxTime :
         LET r == Delete(db, keys, t)
         IN  /\ db' = r.db
             /\ now' = t
             /\ last' = [op |-> "Delete", keys |-> keys, pre |-> db, t1 |-> t, n |-> r.n]
    /\ UNCHANGED <<tx, st, obs, sc, it>>

DoDeleteType(typ, keys) ==
    /\ \E t \in now..MaxTime :
         LET r == DeleteType(db, typ, keys, t)
         IN  /\ db' = r.db
             /\ now' = t
             /\ last' = [op |-> "DeleteType", typ |-> typ, keys |-> keys, pre |-> db,
                         t1 |-> t, n |-> r.n]
    /\ UNCHANGED <<tx, st, obs, sc, it>>

Next ==
    \/ \E key \in Names, newKey \in Names : DoRename(key, newKey)
    \/ \E keys \in KeySets : DoDelete(keys)
    \/ \E typ \in Types, keys \in KeySets : DoDeleteType(typ, keys)

Spec == Init /\ [][Next]_vars

----------------------------------------------------------------------------
(* Expiry and rename-if-absent, each call in a transaction of its own *)

MaxTTL == 2

\* the durations given to Expire; the instants given to ExpireAt
TTLs == 0..MaxTTL

Instants == Times

\* "a": absent or a string, "b": absent or a sorted set, with any expiry
ExpireInitDBs ==
    {[rkey |-> ra \cup rb, rzset |-> InitMembers(ra \cup rb), seq |-> 2] :
        ra \in {{}} \cup {{InitRow(1, "a", TypeString, e)} : e \in ETimes},
        rb \in {{}} \cup {{InitRow(2, "b", TypeSortedSet, e)} : e \in ETimes}}

InitExpire ==
    /\ db \in ExpireInitDBs
    /\ now = 1
    /\ tx = NoTx
    /\ st = NoStore
    /\ obs = NoObs
    /\ sc = NoScanner
    /\ it = NoIter
    /\ last = NoCall

DoRenameNotExists(key, newKey) ==
    /\ VersionRoom(db, key)
    /\ \E t1 \in now..MaxTime : \E t2 \in t1..MaxTime : \E t3 \in t2..MaxTime :
         LET r == RenameNotExists(db, key, newKey, t1, t2, t3)
         IN  /\ db' = r.db
             /\ now' = t3
             /\ last' = [op |-> "RenameNotExists", key |-> key, newKey |-> newKey,
                         pre |-> db, t1 |-> t1, t2 |-> t2, t3 |-> t3,
                         ok |-> r.ok, err |-> r.err]
    /\ UNCHANGED <<tx, st, obs, sc, it>>

DoExpire(key, ttl) ==
    /\ \E t0 \in now..MaxTime : \E t \in t0..MaxTime :
         LET r == Expire(db, key, ttl, t0, t)
         IN  /\ db' = r.db
             /\ now' = t
             /\ last' = [op |-> "Expire", key |-> key, at |-> t0 + ttl, pre |-> db,
                         t1 |-> t, ok |-> r.ok]
    /\ UNCHANGED <<tx, st, obs, sc, it>>

DoExpireAt(key, at) ==
    /\ \E t \in now..MaxTime :
         LET r == ExpireAt(db, key, at, t)
         IN  /\ db' = r.db
             /\ now' = t
             /\ last' = [op |-> "Expire", key |-> key, at |-> at, pre |-> db,
                         t1 |-> t, ok |-> r.ok]
    /\ UNCHANGED <<tx, st, obs, sc, it>>

\* after records the expire call this persist follows, if it follows one
DoPersist(key) ==
    /\ \E t \in now..MaxTime :
         LET r == Persist(db, key, t)
         IN  /\ db' = r.db
             /\ now' = t
             /\ last' = [op |-> "Persist", key |-> key, pre |-> db, t1 |-> t,
                         ok |-> r.ok,
                         after |-> IF last.op = "Expire"
                                   THEN [op |-> "Expire", key |-> last.key,
                                         at |-> last.at, ok |-> last.ok]
                                   ELSE NoCall]
    /\ UNCHANGED <<tx, st, obs, sc, it>>

MaxReap == 2

\* the limits given to deleteExpired
ReapLimits == 0..MaxReap

DoDeleteExpired(n) ==
    /\ \E t \in now..MaxTime :
         \E r \in deleteExpired(db, n, t) :
            /\ db' = r.db
            /\ now' = t
            /\ last' = [op |-> "deleteExpired", n |-> n, pre |-> db, t1 |-> t,
                        count |-> r.count]
    /\ UNCHANGED <<tx, st, obs, sc, it>>

NextExpire ==
    \/ \E n \in ReapLimits : DoDeleteExpired(n)
    \/ \E key \in {"a", "b"}, newKey \in Names : DoRenameNotExists(key, newKey)
    \/ \E key \in {"a", "b"}, ttl \in TTLs : DoExpire(key, ttl)
    \/ \E key \in {"a", "b"}, at \in Instants : DoExpireAt(key, at)
    \/ \E key \in {"a", "b"} : DoPersist(key)

SpecExpire == InitExpire /\ [][NextExpire]_vars

----------------------------------------------------------------------------
(* The store forms, statement by statement, with the caller's transaction   *)
(* and a reader in another transaction                                      *)

ZRows(i, ms) == {[key_id |-> i, elem |-> m[1], score |-> m[2]] : m \in ms}

StoreInitDBs ==
    {[rkey |-> ra \cup rab \cup rb,
      rzset |-> ZRows(1, IF ra = {} THEN {} ELSE {<<"m", 1>>, <<"n", 2>>})
                \cup ZRows(2, IF rab = {} THEN {} ELSE {<<"m", 2>>, <<"n", 1>>, <<"z", 3>>})
                \cup ZRows(3, IF \E x \in rb : x.type = TypeSortedSet
                               THEN {<<"z", 9>>} ELSE {}),
      seq |-> 3] :
        ra \in {{}} \cup {{InitRow(1, "a", TypeSortedSet, e)} : e \in {NULL, MaxTime}},
        rab \in {{InitRow(2, "ab", TypeSortedSet, NULL)}},
        rb \in {{}} \cup {{InitRow(3, "b", ty, e)} : ty \in Types, e \in ETimes}}

InitStore ==
    /\ db \in StoreInitDBs
    /\ now = 1
    /\ tx = NoTx
    /\ st = NoStore
    /\ obs = NoObs
    /\ sc = NoScanner
    /\ it = NoIter
    /\ last = NoCall

TxBegin ==
    /\ st.pc = "idle"
    /\ ~tx.open
    /\ tx' = [open |-> TRUE, db |-> db]
    /\ UNCHANGED <<db, now, st, obs, sc, it, last>>

TxCommit ==
    /\ st.pc = "idle"
    /\ tx.open
    /\ db' = tx.db
    /\ tx' = NoTx
    /\ UNCHANGED <<now, st, obs, sc, it, last>>

TxRollback ==
    /\ st.pc = "idle"
    /\ tx.open
    /\ tx' = NoTx
    /\ UNCHANGED <<db, now, st, obs, sc, it, last>>

StoreCall(c, h) ==
    /\ st.pc = "idle"
    /\ IF h = "db" THEN ~tx.open ELSE tx.open
    /\ Working.seq < MaxId
    /\ tx' = IF UsesUpdate(h) THEN [open |-> TRUE, db |-> db] ELSE tx
    /\ st' = [pc |-> "delete", c |-> c, h |-> h, pre |-> Working, cpre |-> db,
              t1 |-> 0, t2 |-> 0, id |-> 0, n |-> 0, err |-> "nil", fail |-> FALSE]
    /\ obs' = NoObs
    /\ last' = NoCall
    /\ UNCHANGED <<db, now, sc, it>>

StoreDeleteStep ==
    /\ st.pc = "delete"
    /\ \E t \in now..MaxTime :
         /\ Write(DeleteType(Working, TypeSortedSet, {st.c.dest}, t).db)
         /\ st' = [st EXCEPT !.pc = "insert", !.t1 = t]
         /\ now' = t
    /\ UNCHANGED <<obs, sc, it, last>>

StoreInsertStep ==
    /\ st.pc = "insert"
    /\ \E t \in now..MaxTime :
         LET i == SqlStore1(Working, st.c.dest, t)
         IN  /\ Write(i.db)
             /\ st' = IF i.err # "nil"
                      THEN [st EXCEPT !.pc = "finish", !.t2 = t, !.err = TypedError(i.err)]
                      ELSE [st EXCEPT !.pc = "members", !.t2 = t, !.id = i.id]
             /\ now' = t
    /\ UNCHANGED <<obs, sc, it, last>>

StoreMembersStep ==
    /\ st.pc = "members"
    /\ \E fail \in BOOLEAN :
         IF fail
         THEN /\ st' = [st EXCEPT !.pc = "finish", !.err = "ErrStore", !.fail = TRUE]
              /\ UNCHANGED <<db, tx>>
         ELSE LET m == SqlStore2(Working, st.c.kind, st.id, st.c.keys, st.c.agg, st.t2)
              IN  /\ Write(m.db)
                  /\ st' = [st EXCEPT !.pc = "finish", !.n = m.n]
    /\ UNCHANGED <<now, obs, sc, it, last>>

\* the end of Update (database handle); nothing for a transaction handle
StoreFinish ==
    /\ st.pc = "finish"
    /\ IF st.h = "db" /\ tx.open
       THEN /\ db' = Update(db, tx.db, UpdateFn(st.err))
            /\ tx' = NoTx
       ELSE UNCHANGED <<db, tx>>
    /\ st' = [st EXCEPT !.pc = "returning"]
    /\ UNCHANGED <<now, obs, sc, it, last>>

StoreReturn ==
    /\ st.pc = "returning"
    /\ st' = NoStore
    /\ last' = [op |-> "Store", c |-> st.c, h |-> st.h, pre |-> st.pre,
                cpre |-> st.cpre, post |-> Working, cpost |-> db,
                t1 |-> st.t1, t2 |-> st.t2, n |-> st.n, err |-> st.err,
                fail |-> st.fail]
    /\ obs' = NoObs
    /\ UNCHANGED <<db, now, tx, sc, it>>

\* a reader in another transaction, between the call and the return of Store
Read ==
    /\ st.pc \notin {"idle"}
    /\ \E t \in now..MaxTime :
         /\ obs' = [at |-> st.pc, t |-> t, view |-> DestView(db, st.c.dest, t)]
         /\ now' = t
    /\ UNCHANGED <<db, tx, st, sc, it, last>>

NextStore ==
    \/ TxBegin
    \/ TxCommit
    \/ TxRollback
    \/ \E c \in Cmds, h \in Handles : StoreCall(c, h)
    \/ StoreDeleteStep
    \/ StoreInsertStep
    \/ StoreMembersStep
    \/ StoreFinish
    \/ StoreReturn
    \/ Read

SpecStore == InitStore /\ [][NextStore]_vars

----------------------------------------------------------------------------
(* Scan, the Scanner and clients that change the registry meanwhile *)

ScanInitDBs ==
    {[rkey |-> ra \cup rab \cup {InitRow(3, "b", TypeString, NULL)},
      rzset |-> {}, seq |-> 3] :
        ra \in {{}} \cup {{InitRow(1, "a", TypeString, e)} : e \in {NULL, MaxTime}},
        rab \in {{}, {InitRow(2, "ab", TypeString, NULL)}}}

InitScan ==
    /\ db \in ScanInitDBs
    /\ now = 1
    /\ tx = NoTx
    /\ st = NoStore
    /\ obs = NoObs
    /\ sc = NoScanner
    /\ it = NoIter
    /\ last = NoCall

PageSizes == {0, 1, 2}

Ids == 1..MaxId

\* the ids a client's write has removed or changed
Touched(d1, d2) == {r.id : r \in {x \in d1.rkey : x \notin d2.rkey}}

\* the iteration has fetched a page and no empty page yet
Iterating == it.on /\ ~it.ended

\* the iteration's record of a write by another client
NoteWrite(d2) ==
    it' = IF Iterating
          THEN [it EXCEPT !.touched = @ \cup Touched(db, d2)]
          ELSE it

\* the iteration's record of a page
NotePage(out, t) ==
    LET first == IF it.on THEN it
                 ELSE [on |-> TRUE, ended |-> FALSE, touched |-> {},
                       start |-> {r.id : r \in ScanRows(db, 0, sc.pattern, t)},
                       seen |-> [i \in Ids |-> 0]]
        ids == {out.Keys[i].id : i \in 1..Len(out.Keys)}
    IN  IF first.ended THEN first
        ELSE [first EXCEPT
                !.seen = [i \in Ids |->
                            IF i \in ids /\ @[i] < 2 THEN @[i] + 1 ELSE @[i]],
                !.ended = Len(out.Keys) = 0]

\* a client that pages by hand, before any Scanner is made
DoScan(cursor, pattern, pageSize) ==
    /\ ~sc.made
    /\ \E t \in now..MaxTime :
         \E out \in Scan(db, cursor, pattern, pageSize, t) :
            /\ now' = t
            /\ last' = [op |-> "Scan", cursor |-> cursor, pattern |-> pattern,
                        pageSize |-> pageSize, pre |-> db, t1 |-> t, out |-> out]
    /\ UNCHANGED <<db, tx, st, obs, sc, it>>

NewScanner(pattern, pageSize) ==
    /\ ~sc.made
    /\ sc' = newScanner(pattern, pageSize)
    /\ last' = NoCall
    /\ UNCHANGED <<db, now, tx, st, obs, it>>

ScannerCall(r, fetched, failed) ==
    /\ sc' = r.sc
    /\ last' = [op |-> "ScannerScan", ret |-> r.ret, fetched |-> fetched,
                failed |-> failed, ended |-> it.on /\ it.ended,
                errBefore |-> sc.err, key |-> r.sc.cur]

\* Scanner.Scan: a page fetch that fails
ScannerScanFail ==
    /\ sc.made
    /\ sc.index >= Len(sc.keys)
    /\ \E e \in StoreErrors : ScannerCall(ScannerFetchFailed(sc, e), TRUE, TRUE)
    /\ UNCHANGED <<db, now, tx, st, obs, it>>

\* Scanner.Scan: a page fetch that succeeds
ScannerScanFetch ==
    /\ sc.made
    /\ sc.index >= Len(sc.keys)
    /\ \E t \in now..MaxTime :
         \E out \in Scan(db, sc.cursor, sc.pattern, sc.pageSize, t) :
            /\ ScannerCall(ScannerFetched(sc, out), TRUE, FALSE)
            /\ it' = NotePage(out, t)
            /\ now' = t
    /\ UNCHANGED <<db, tx, st, obs>>

\* Scanner.Scan: the next key of the page at hand
ScannerScanNext ==
    /\ sc.made
    /\ sc.index < Len(sc.keys)
    /\ ScannerCall(ScannerAdvance(sc), FALSE, FALSE)
    /\ UNCHANGED <<db, now, tx, st, obs, it>>

\* writes by other clients while the iteration runs; each reads the clock where
\* the last page fetch left it
OtherDelete(key) ==
    /\ Iterating
    /\ LET d2 == Delete(db, {key}, now).db
       IN  /\ db' = d2
           /\ NoteWrite(d2)
    /\ last' = NoCall
    /\ UNCHANGED <<now, tx, st, obs, sc>>

OtherRename(key, newKey) ==
    /\ Iterating
    /\ VersionRoom(db, key)
    /\ LET d2 == Rename(db, key, newKey, now, now, now).db
       IN  /\ db' = d2
           /\ NoteWrite(d2)
    /\ last' = NoCall
    /\ UNCHANGED <<now, tx, st, obs, sc>>

\* a Store by another client, through its database handle
OtherStore(c) ==
    /\ Iterating
    /\ db.seq < MaxId
    /\ LET r == Store(db, c, now, now, FALSE)
           d2 == Update(db, r.db, UpdateFn(r.err))
       IN  /\ db' = d2
           /\ NoteWrite(d2)
    /\ last' = NoCall
    /\ UNCHANGED <<now, tx, st, obs, sc>>

NextScan ==
    \/ \E cursor \in 0..MaxId, p \in Patterns, n \in PageSizes : DoScan(cursor, p, n)
    \/ \E p \in Patterns, n \in PageSizes : NewScanner(p, n)
    \/ ScannerScanFail
    \/ ScannerScanFetch
    \/ ScannerScanNext
    \/ \E key \in Names \ {"ab"} : OtherDelete(key)
    \/ \E key \in Names \ {"ab"} : OtherRename(key, "ab")
    \/ \E c \in {x \in Cmds : x.kind = Union /\ x.agg = Sum /\ x.keys = <<"a">>} :
         OtherStore(c)

SpecScan == InitScan /\ [][NextScan]_vars

----------------------------------------------------------------------------
(* The query forms: one call, at any clock reading, on a registry at rest *)

\* "a": absent, a string, or the set {m:1, n:3} with or without an expiry;
\* "ab": the set {m:4, n:1, z:2}; "b": absent or the set {n:2, z:2}
QueryInitDBs ==
    {[rkey |-> ra \cup {InitRow(2, "ab", TypeSortedSet, NULL)} \cup rb,
      rzset |-> ZRows(1, IF \E x \in ra : x.type = TypeSortedSet
                         THEN {<<"m", 1>>, <<"n", 3>>} ELSE {})
                \cup ZRows(2, {<<"m", 4>>, <<"n", 1>>, <<"z", 2>>})
                \cup ZRows(3, IF rb = {} THEN {} ELSE {<<"n", 2>>, <<"z", 2>>}),
      seq |-> 3] :
        ra \in {{}, {InitRow(1, "a", TypeString, NULL)}}
                 \cup {{InitRow(1, "a", TypeSortedSet, e)} : e \in {NULL, MaxTime}},
        rb \in {{}} \cup {{InitRow(3, "b", TypeSortedSet, e)} : e \in ETimes}}

InitQuery ==
    /\ db \in QueryInitDBs
    /\ now = 1
    /\ tx = NoTx
    /\ st = NoStore
    /\ obs = NoObs
    /\ sc = NoScanner
    /\ it = NoIter
    /\ last = NoCall

\* the source lists given to the query forms
QueryKeyLists ==
    {<<"a">>, <<"ab">>, <<"a", "a">>, <<"ab", "ab">>, <<"a", "ab">>, <<"ab", "b">>,
     <<"b", "a">>, <<"a", "ab", "b">>}

\* InterCmd.Run / UnionCmd.Run
DoRun(kind, keys, agg) ==
    /\ last = NoCall
    /\ \E t \in now..MaxTime :
         /\ now' = t
         /\ last' = [op |-> "Run", kind |-> kind, keys |-> keys, agg |-> agg,
                     pre |-> db, t1 |-> t, items |-> Query(db, kind, keys, agg, t)]
    /\ UNCHANGED <<db, tx, st, obs, sc, it>>

\* the ranks, scores, offsets and counts given to the range forms
MaxRank == 3

MaxScoreArg == 4

MaxCount == 2

Ranks == (0 - 1)..MaxRank

ScoreArgs == 1..MaxScoreArg

Offsets == (0 - 1)..MaxCount

Counts == (0 - 1)..MaxCount

\* RangeCmd.Run with ByRank
DoRangeRank(key, start, stop, dir) ==
    /\ last = NoCall
    /\ \E t \in now..MaxTime :
         /\ now' = t
         /\ last' = [op |-> "RangeRank", key |-> key, start |-> start, stop |-> stop,
                     dir |-> dir, pre |-> db, t1 |-> t,
                     items |-> RangeRank(db, key, start, stop, dir, t)]
    /\ UNCHANGED <<db, tx, st, obs, sc, it>>

\* RangeCmd.Run with ByScore
DoRangeScore(key, lo, hi, dir, offset, count) ==
    /\ last = NoCall
    /\ \E t \in now..MaxTime :
         /\ now' = t
         /\ last' = [op |-> "RangeScore", key |-> key, start |-> lo, stop |-> hi,
                     dir |-> dir, offset |-> offset, count |-> count,
                     pre |-> db, t1 |-> t,
                     items |-> RangeScore(db, key, lo, hi, dir, offset, count, t)]
    /\ UNCHANGED <<db, tx, st, obs, sc, it>>

NextQuery ==
    \/ \E keys \in QueryKeyLists, agg \in Aggregates : DoRun(Inter, keys, agg)
    \/ \E keys \in QueryKeyLists, agg \in Aggregates : DoRun(Union, keys, agg)
    \/ \E key \in Names, start \in Ranks, stop \in Ranks, dir \in SortDirs :
         DoRangeRank(key, start, stop, dir)
    \/ \E key \in {"a", "ab"}, lo \in ScoreArgs, hi \in ScoreArgs, dir \in SortDirs,
          offset \in Offsets, count \in Counts :
         DoRangeScore(key, lo, hi, dir, offset, count)

SpecQuery == InitQuery /\ [][NextQuery]_vars

----------------------------------------------------------------------------
(* C1: for a live key a and any other name b (absent, expired or live with  *)
(* any type), after Rename(a, b) has returned without error, Get(a) is the *)
(* empty record and Get(b) is a's record with the same id, type and etime  *)
(* and version + 1; the record that held b before is gone.  "Live" is read *)
(* at the time of the Gets, hence at every clock reading of the call.      *)

RenamedOk ==
    /\ last.op = "Rename"
    /\ last.err = "nil"
    /\ last.key # last.newKey
    /\ Live(Get(last.pre, last.key, last.t1), now)

C1_RenameMovesRecord ==
    RenamedOk =>
        LET p == Get(last.pre, last.key, last.t1)
            g == Get(db, last.newKey, now)
        IN  /\ Get(db, last.key, now) = EmptyKey
            /\ g.id = p.id
            /\ g.type = p.type
            /\ g.version = p.version + 1
            /\ g.etime = p.etime
            /\ \A r \in last.pre.rkey :
                 r.key = last.newKey =>
                     /\ \A x \in db.rkey : x.id # r.id
                     /\ \A m \in db.rzset : m.key_id # r.id

C1_Witness_ExpiredTarget ==
    /\ RenamedOk
    /\ \E r \in last.pre.rkey :
         r.key = last.newKey /\ ~Live(r, last.t1) /\ r.type = TypeSortedSet

----------------------------------------------------------------------------
(* C2: when the destination holds a live record that is not a sorted set,   *)
(* the store form of intersect and of union fails with the wrong-type error *)
(* and nothing changes: the destination record and every other key and      *)
(* member row are as before, in the transaction and in the committed state. *)

StoreDone == last.op = "Store"

WrongTypeDest ==
    /\ StoreDone
    /\ LET k == Get(last.pre, last.c.dest, last.t1)
       IN  Exists(k) /\ k.type # TypeSortedSet

C2_WrongTypeNoChange ==
    WrongTypeDest =>
        /\ last.err = "ErrKeyType"
        /\ last.n = 0
        /\ last.post = last.pre
        /\ last.cpost = last.cpre

C2_Witness_StringDest ==
    /\ WrongTypeDest
    /\ last.c.kind = Union
    /\ last.h = "tx"
    /\ Get(last.pre, last.c.dest, last.t1).etime # NULL

----------------------------------------------------------------------------
(* C3: when the destination is absent or a live sorted set and is not a     *)
(* source, a successful store leaves it a fresh sorted-set record at the    *)
(* initial version with no expiry whose members are exactly the pairs of    *)
(* the query form over the sources; no prior member remains and the count   *)
(* returned is the number of members now in the destination.                *)

StoredFresh ==
    /\ StoreDone
    /\ last.err = "nil"
    /\ last.c.dest \notin Range(last.c.keys)
    /\ \/ \A r \in last.pre.rkey : r.key # last.c.dest
       \/ LET k == Get(last.pre, last.c.dest, last.t1)
          IN  Exists(k) /\ k.type = TypeSortedSet

----------------------------------------------------------------------------
(* C4: a reader in another transaction, between the call and the return of  *)
(* Store, sees the destination either as it was before the call or as the   *)
(* completed store leaves it, never absent, empty or partly filled in       *)
(* between.                                                                 *)

C4_StoreAtomic ==
    obs.at # "none" =>
        \/ obs.view = DestView(st.cpre, st.c.dest, obs.t)
        \/ /\ st.pc = "returning"
           /\ st.err = "nil"
           /\ obs.view = DestView(Store(st.pre, st.c, st.t1, st.t2, FALSE).db,
                                  st.c.dest, obs.t)

C4_Witness_ReadMidStore ==
    /\ obs.at = "members"
    /\ st.pc = "members"
    /\ tx.open
    /\ obs.view.members # {}
    /\ DestView(tx.db, st.c.dest, obs.t) # obs.view
    /\ DestView(tx.db, st.c.dest, obs.t).members = {}

----------------------------------------------------------------------------
(* C5: if the member insertion fails after the prior destination was        *)
(* deleted and the new row inserted, then once Store has returned the error *)
(* the destination again holds its prior record and members, with a         *)
(* database handle and with a transaction handle alike.                     *)

FailedInsert == StoreDone /\ last.fail

C5_FailedStoreRestores ==
    FailedInsert =>
        /\ DestRaw(last.post, last.c.dest) = DestRaw(last.pre, last.c.dest)
        /\ DestRaw(last.cpost, last.c.dest) = DestRaw(last.cpre, last.c.dest)

(* C5 as amended: the failed Store returns the error and leaves the         *)
(* committed state unchanged; with a database handle the whole database is  *)
(* again as before the call; with a transaction handle Store rolls nothing  *)
(* back, and inside that transaction the name holds the new empty record    *)
(* while the prior record and its members are gone.                         *)

C5_FailedStoreByHandle ==
    FailedInsert =>
        /\ last.err = "ErrStore"
        /\ last.cpost = last.cpre
        /\ last.h = "db" => last.post = last.pre
        /\ last.h = "tx" =>
             /\ \A v \in DestRaw(last.post, last.c.dest) :
                  /\ v.members = {}
                  /\ \A r \in last.pre.rkey : r.id # v.rec.id
             /\ DestRaw(last.post, last.c.dest) # {}
             /\ \A r \in last.pre.rkey :
                  r.key = last.c.dest => Members(last.post, r.id) = {}

C5_Witness_FailedInTx ==
    /\ FailedInsert
    /\ last.h = "tx"
    /\ \E v \in DestRaw(last.pre, last.c.dest) : v.members # {}

C5_Witness_FailedInUpdate ==
    /\ FailedInsert
    /\ last.h = "db"
    /\ \E v \in DestRaw(last.pre, last.c.dest) : v.members # {}

----------------------------------------------------------------------------
(* C6: an expired row that was not reaped yet is invisible to every         *)
(* operation: the value returned (errors included) and the resulting live   *)
(* records and members are those of the registry without that row; storing  *)
(* into a name held only by an expired row succeeds as if it were free.     *)

SameOutcome(r1, r2, t) ==
    /\ r1.err = r2.err
    /\ LiveView(r1.db, t) = LiveView(r2.db, t)

C6_ExpiredInvisible ==
    /\ StoreDone =>
         LET r == Store(Purge(last.pre, last.t1), last.c, last.t1, last.t2, last.fail)
         IN  /\ last.err = r.err
             /\ last.n = r.n
             /\ LiveView(last.post, last.t2) = LiveView(r.db, last.t2)
    /\ LET p == Purge(db, now)
       IN  /\ \A k \in Names : Get(db, k, now) = Get(p, k, now)
           /\ \A ks \in SUBSET Names : Count(db, ks, now) = Count(p, ks, now)
           /\ \A k \in Names, n \in Names :
                SameOutcome(Rename(db, k, n, now, now, now),
                            Rename(p, k, n, now, now, now), now)
           /\ \A ks \in SUBSET Names :
                /\ Delete(db, ks, now).n = Delete(p, ks, now).n
                /\ LiveView(Delete(db, ks, now).db, now)
                     = LiveView(Delete(p, ks, now).db, now)
           /\ \A ks \in SUBSET Names, ty \in Types :
                /\ DeleteType(db, ty, ks, now).n = DeleteType(p, ty, ks, now).n
                /\ LiveView(DeleteType(db, ty, ks, now).db, now)
                     = LiveView(DeleteType(p, ty, ks, now).db, now)
           /\ \A c \in Cmds :
                Query(db, c.kind, c.keys, c.agg, now) = Query(p, c.kind, c.keys, c.agg, now)

(***************************************************************************)
(* C7: iterating Scan from cursor 0, feeding each Cursor into the next     *)
(* call until an empty page comes back, visits every key that matches the  *)
(* pattern, is live when the iteration starts and is neither removed nor   *)
(* changed during it on exactly one page, whatever the page size and       *)
(* whatever other clients write to other keys meanwhile.                   *)
(***************************************************************************)

\* the record with this id is in the registry and live at the clock's reading
StillLive(id) == \E r \in db.rkey : r.id = id /\ Live(r, now)

C7_ScanVisitsOnce ==
    (it.on /\ it.ended) =>
        \A id \in it.start \ it.touched : StillLive(id) => it.seen[id] = 1

(***************************************************************************)
(* C8: Scan(cursor, pattern, pageSize) returns the min(pageSize, m) live   *)
(* matching records with the smallest ids above the cursor, in ascending   *)
(* id order, and Cursor is the largest id returned; pageSize 0 behaves as  *)
(* scanPageSize.                                                           *)
(***************************************************************************)

ScanDone == last.op = "Scan"

\* the rows of S with the k smallest ids
Smallest(S, k) == {r \in S : Cardinality({q \in S : q.id < r.id}) < k}

C8_ScanPage ==
    ScanDone =>
        LET count == IF last.pageSize = 0 THEN scanPageSize ELSE last.pageSize
            rows == ScanRows(last.pre, last.cursor, last.pattern, last.t1)
            m == Cardinality(rows)
            k == IF m < count THEN m ELSE count
            keys == last.out.Keys
        IN  /\ Len(keys) = k
            /\ {keys[i] : i \in 1..Len(keys)} = Smallest(rows, k)
            /\ \A i \in 1..Len(keys), j \in 1..Len(keys) :
                 i < j => keys[i].id < keys[j].id
            /\ k > 0 => last.out.Cursor = MaxOf({r.id : r \in Smallest(rows, k)})

(***************************************************************************)
(* C9: once a Scanner has fetched a page with zero rows, every later call  *)
(* to Scanner.Scan returns false and fetches no further page (stated here  *)
(* for the calls during which the store does not fail).                    *)
(***************************************************************************)

ScannerScanDone == last.op = "ScannerScan"

C9_ScannerStaysEnded ==
    (ScannerScanDone /\ last.ended /\ ~last.failed) =>
        (~last.ret /\ ~last.fetched)

(***************************************************************************)
(* C10: Scanner.Err keeps the first error of a page fetch whatever later   *)
(* fetches do, and from the failed fetch on every Scanner.Scan returns     *)
(* false.                                                                  *)
(***************************************************************************)

C10_ScannerErrSticky ==
    ScannerScanDone =>
        /\ last.errBefore # "nil" => sc.err = last.errBefore
        /\ (last.failed \/ last.errBefore # "nil") => ~last.ret

----------------------------------------------------------------------------
(* C11: for a list of distinct source names, the query form of intersect    *)
(* returns exactly the elements that are members of every listed key, each  *)
(* a live sorted set (nothing when a listed key is absent, expired or of    *)
(* another type), each with the aggregate of its scores in the listed keys, *)
(* ordered by (aggregated score, elem) ascending.                           *)

RunDone(kind) == last.op = "Run" /\ last.kind = kind

Distinct(keys) == \A i \in 1..Len(keys), j \in 1..Len(keys) : keys[i] = keys[j] => i = j

\* the name holds a live sorted set
LiveSet(d, key, t) == Get(d, key, t).type = TypeSortedSet

\* the scores of e in the sets named by keys
ScoresOf(d, keys, e, t) ==
    [i \in 1..Len(keys) |->
        LET ms == {m \in Members(d, Get(d, keys[i], t).id) : m.elem = e}
        IN  IF ms = {} THEN <<>> ELSE <<(CHOOSE m \in ms : TRUE).score>>]

RECURSIVE Flatten(_)
Flatten(ss) == IF ss = <<>> THEN <<>> ELSE Head(ss) \o Flatten(Tail(ss))

RECURSIVE FoldScores(_, _)
FoldScores(agg, s) ==
    IF Len(s) = 1 THEN s[1]
    ELSE LET rest == FoldScores(agg, Tail(s))
         IN  IF agg = Sum THEN s[1] + rest
             ELSE IF agg = Min THEN (IF s[1] < rest THEN s[1] ELSE rest)
             ELSE (IF s[1] > rest THEN s[1] ELSE rest)

InAll(d, keys, e, t) ==
    \A i \in 1..Len(keys) :
        LiveSet(d, keys[i], t) /\ ScoresOf(d, keys, e, t)[i] # <<>>

ByScoreThenElem(items) ==
    \A i \in 1..Len(items), j \in 1..Len(items) :
        i < j => \/ items[i].score < items[j].score
                 \/ /\ items[i].score = items[j].score
                    /\ ElemRank(items[i].elem) < ElemRank(items[j].elem)

C11_InterQuery ==
    (RunDone(Inter) /\ Distinct(last.keys)) =>
        /\ Range(last.items) =
             {[elem |-> e,
               score |-> FoldScores(last.agg,
                                    Flatten(ScoresOf(last.pre, last.keys, e, last.t1)))] :
                 e \in {x \in Range(Elems) : InAll(last.pre, last.keys, x, last.t1)}}
        /\ ByScoreThenElem(last.items)

C11_Witness_TwoKeysMin ==
    /\ RunDone(Inter)
    /\ last.keys = <<"a", "ab">>
    /\ last.agg = Min
    /\ Len(last.items) = 2

C11_Witness_ExpiredSource ==
    /\ RunDone(Inter)
    /\ last.keys = <<"b", "a">>
    /\ \E r \in last.pre.rkey : r.key = "a" /\ r.type = TypeSortedSet /\ ~Live(r, last.t1)
    /\ \E r \in last.pre.rkey : r.key = "b" /\ Live(r, last.t1)
    /\ last.items = <<>>

----------------------------------------------------------------------------
(* C12: intersecting a live sorted set with itself, the same name listed    *)
(* twice, returns every member of the set, its score doubled under sum and  *)
(* unchanged under min and max.                                             *)

C12_InterWithItself ==
    (/\ RunDone(Inter)
     /\ Len(last.keys) = 2
     /\ last.keys[1] = last.keys[2]
     /\ LiveSet(last.pre, last.keys[1], last.t1)) =>
        Range(last.items) =
            {[elem |-> m.elem,
              score |-> IF last.agg = Sum THEN m.score + m.score ELSE m.score] :
                m \in Members(last.pre, Get(last.pre, last.keys[1], last.t1).id)}

----------------------------------------------------------------------------
(* C13: the query form of union returns exactly the elements that are       *)
(* members of at least one listed live sorted set, skipping absent and      *)
(* expired keys, each with the aggregate of its scores over the listed keys *)
(* in which it occurs, ordered by (aggregated score, elem) ascending; over  *)
(* a single live key it returns that set's own members and scores.  A name  *)
(* listed twice is one listed key.                                          *)

\* the list without its repetitions
RECURSIVE Dedup(_)
Dedup(keys) ==
    IF keys = <<>> THEN <<>>
    ELSE LET front == Dedup(SubSeq(keys, 1, Len(keys) - 1))
             k == keys[Len(keys)]
         IN  IF k \in Range(front) THEN front ELSE Append(front, k)

InSome(d, keys, e, t) ==
    \E i \in 1..Len(keys) :
        LiveSet(d, keys[i], t) /\ ScoresOf(d, keys, e, t)[i] # <<>>

C13_UnionQuery ==
    RunDone(Union) =>
        LET keys == Dedup(last.keys)
        IN  /\ Range(last.items) =
                 {[elem |-> e,
                   score |-> FoldScores(last.agg,
                                        Flatten(ScoresOf(last.pre, keys, e, last.t1)))] :
                     e \in {x \in Range(Elems) : InSome(last.pre, keys, x, last.t1)}}
            /\ ByScoreThenElem(last.items)
            /\ (Len(last.keys) = 1 /\ LiveSet(last.pre, last.keys[1], last.t1)) =>
                 Range(last.items) =
                    Members(last.pre, Get(last.pre, last.keys[1], last.t1).id)

C13_Witness_SkipsExpired ==
    /\ RunDone(Union)
    /\ last.keys = <<"a", "ab", "b">>
    /\ last.agg = Max
    /\ LiveSet(last.pre, "a", last.t1)
    /\ \E r \in last.pre.rkey : r.key = "b" /\ ~Live(r, last.t1)
    /\ Len(last.items) = 3

----------------------------------------------------------------------------
(* C14: for start >= 0 and stop >= 0 and either direction, range-by-rank    *)
(* ranks the members of the key from 0 by (score, elem) in that direction   *)
(* and returns exactly the members with rank in [start, stop], rank 0       *)
(* first (for descending, highest score first); a negative start or stop,  *)
(* or a key that is absent, expired or no sorted set, gives nothing.       *)

RangeRankDone == last.op = "RangeRank"

\* the members of the key in rank order for the direction
InRankOrder(d, key, dir, t) ==
    LET ms == IF LiveSet(d, key, t) THEN Members(d, Get(d, key, t).id) ELSE {}
    IN  [i \in 1..Cardinality(ms) |->
            CHOOSE a \in ms :
                Cardinality({b \in ms : RowBefore(b, a, dir, dir)}) = i - 1]

C14_RangeByRank ==
    RangeRankDone =>
        LET all == InRankOrder(last.pre, last.key, last.dir, last.t1)
            hi == IF last.stop + 1 > Len(all) THEN Len(all) ELSE last.stop + 1
        IN  last.items =
                IF last.start < 0 \/ last.stop < 0 THEN <<>>
                ELSE SubSeq(all, last.start + 1, hi)

----------------------------------------------------------------------------
(* C15: range-by-score returns the members with scoreLow <= score <=        *)
(* scoreHigh ordered by (score, elem) in the chosen direction, skips the    *)
(* first offset of them when offset > 0 and caps the rest at count when     *)
(* count > 0; with offset > 0 and count = 0 it returns all members after    *)
(* the skipped ones, and with both 0 all members in range.                  *)

RangeScoreDone == last.op = "RangeScore"

\* s without its first n items
Skip(s, n) == SubSeq(s, n + 1, Len(s))

\* the first n items of s
Cap(s, n) == SubSeq(s, 1, IF n < Len(s) THEN n ELSE Len(s))

\* the items of s with a score in [lo, hi], in the order of s
RECURSIVE InScoreRange(_, _, _)
InScoreRange(s, lo, hi) ==
    IF s = <<>> THEN <<>>
    ELSE (IF lo <= Head(s).score /\ Head(s).score <= hi THEN <<Head(s)>> ELSE <<>>)
            \o InScoreRange(Tail(s), lo, hi)

C15_RangeByScore ==
    RangeScoreDone =>
        LET all == InScoreRange(InRankOrder(last.pre, last.key, last.dir, last.t1),
                                last.start, last.stop)
            skipped == IF last.offset > 0 THEN Skip(all, last.offset) ELSE all
        IN  last.items = IF last.count > 0 THEN Cap(skipped, last.count) ELSE skipped

C15_Witness_OffsetOnly ==
    /\ RangeScoreDone
    /\ last.offset = 1
    /\ last.count = 0
    /\ last.dir = Desc
    /\ last.key = "ab"
    /\ Len(last.items) = 2

----------------------------------------------------------------------------
(* C16: for names a, b with a live: if b is live, RenameNotExists(a, b)     *)
(* returns false and leaves every record unchanged; if b is absent or       *)
(* expired, it returns true and the record formerly at a is live under the  *)
(* name b with the same id.  a is live at every clock reading of the call,  *)
(* b is read when the call looks for it.                                    *)

RenameNotExistsDone ==
    /\ last.op = "RenameNotExists"
    /\ Exists(Get(last.pre, last.key, last.t1))
    /\ Live(Get(last.pre, last.key, last.t1), now)

C16_RenameIfAbsent ==
    RenameNotExistsDone =>
        LET p == Get(last.pre, last.key, last.t1)
        IN  /\ last.err = "nil"
            /\ Exists(Get(last.pre, last.newKey, last.t2)) =>
                 /\ ~last.ok
                 /\ db = last.pre
            /\ ~Exists(Get(last.pre, last.newKey, last.t2)) =>
                 /\ last.ok
                 /\ Get(db, last.newKey, now).id = p.id
                 /\ Get(db, last.key, now) = EmptyKey

C16_Witness_ExpiredTarget ==
    /\ RenameNotExistsDone
    /\ last.ok
    /\ last.key = "a"
    /\ \E r \in last.pre.rkey : r.key = last.newKey /\ ~Live(r, last.t2)

C16_Witness_LiveTarget ==
    /\ RenameNotExistsDone
    /\ ~last.ok
    /\ last.key # last.newKey
    /\ Exists(Get(last.pre, last.newKey, last.t2))

----------------------------------------------------------------------------
(* C17: Rename(old, new) with old absent or expired returns the not-found   *)
(* error and changes no record, a live record at new included; Rename(a, a) *)
(* with a live returns success and leaves a's record unchanged, version     *)
(* included.                                                                *)

RenameDone == last.op = "Rename"

C17_RenameNotFoundOrSame ==
    RenameDone =>
        /\ ~Exists(Get(last.pre, last.key, last.t1)) =>
             /\ last.err = "ErrNotFound"
             /\ db = last.pre
        /\ (Exists(Get(last.pre, last.key, last.t1)) /\ last.key = last.newKey) =>
             /\ last.err = "nil"
             /\ db = last.pre

C17_Witness_ExpiredOldLiveNew ==
    /\ RenameDone
    /\ last.err = "ErrNotFound"
    /\ \E r \in last.pre.rkey : r.key = last.key /\ ~Live(r, last.t1)
    /\ Exists(Get(last.pre, last.newKey, last.t3))
    /\ Exists(Get(db, last.newKey, now))

----------------------------------------------------------------------------
(* C18: when the query of the store form selects zero rows (no source key   *)
(* is live, say), Store succeeds returning 0 and afterwards the destination *)
(* name holds a live, empty sorted-set record.                              *)

\* a Store the store did not fail, whose query finds nothing once the prior
\* destination is deleted
ZeroRowStore ==
    /\ StoreDone
    /\ ~last.fail
    /\ Query(DeleteType(last.pre, TypeSortedSet, {last.c.dest}, last.t1).db,
             last.c.kind, last.c.keys, last.c.agg, last.t2) = <<>>

EmptySetAtDest ==
    LET k == Get(last.post, last.c.dest, last.t2)
    IN  /\ Exists(k)
        /\ k.type = TypeSortedSet
        /\ Members(last.post, k.id) = {}

DestBlocked ==
    \E r \in last.pre.rkey :
        r.key = last.c.dest /\ ~(Live(r, last.t1) /\ r.type = TypeSortedSet)

----------------------------------------------------------------------------
(* C19: as documented on InterCmd.Store and UnionCmd.Store, if any of the   *)
(* source keys (intersect) or all of them (union) do not exist or are not   *)
(* sets, Store does nothing except deleting the destination key if it       *)
(* exists: afterwards no live record exists at the destination name.        *)

SourcesMissing ==
    LET d == DeleteType(last.pre, TypeSortedSet, {last.c.dest}, last.t1).db
    IN  IF last.c.kind = Inter
        THEN \E i \in 1..Len(last.c.keys) : ~LiveSet(d, last.c.keys[i], last.t2)
        ELSE \A i \in 1..Len(last.c.keys) : ~LiveSet(d, last.c.keys[i], last.t2)

C19_MissingSourceDeletesDest ==
    (StoreDone /\ ~last.fail /\ last.err = "nil" /\ SourcesMissing) =>
        /\ last.n = 0
        /\ Get(last.post, last.c.dest, last.t2) = EmptyKey

----------------------------------------------------------------------------
(* C20: Expire, ExpireAt and Persist return true iff a live record of the   *)
(* name was updated, and change nothing when the name is absent or expired; *)
(* for a live key k and any ttl, expire(k, ttl) followed by persist(k)      *)
(* leaves get(k) returning k's record with etime null.                      *)

ExpireDone == last.op = "Expire"

PersistDone == last.op = "Persist"

\* the call set the etime of the live record of the name to e and nothing else
SetsETime(e) ==
    LET p == Get(last.pre, last.key, last.t1)
    IN  /\ last.ok = Exists(p)
        /\ ~Exists(p) => db = last.pre
        /\ Exists(p) =>
             /\ db.rkey = (last.pre.rkey \ {p}) \cup {[p EXCEPT !.etime = e]}
             /\ db.rzset = last.pre.rzset

\* persist(k) right after an expire(k, ttl) that found k live
PersistAfterExpire ==
    /\ PersistDone
    /\ last.after.op = "Expire"
    /\ last.after.key = last.key
    /\ last.after.ok

PersistedRecord ==
    LET g == Get(db, last.key, now)
    IN  /\ last.ok
        /\ Exists(g)
        /\ g.etime = NULL
        /\ \E r \in last.pre.rkey : r.key = last.key /\ r.id = g.id

C20_ExpirePersist ==
    /\ ExpireDone => SetsETime(last.at)
    /\ PersistDone => SetsETime(NULL)
    /\ PersistAfterExpire => PersistedRecord

(* C20 as amended: the sequence law holds when the expiry time set by       *)
(* expire is still later than the clock when persist runs; otherwise (a ttl *)
(* of zero, or a ttl that has passed) k is expired, persist returns false   *)
(* and changes nothing, and get(k) finds no record.                         *)

C20_ExpirePersistInTime ==
    /\ ExpireDone => SetsETime(last.at)
    /\ PersistDone => SetsETime(NULL)
    /\ (PersistAfterExpire /\ last.after.at > last.t1) => PersistedRecord
    /\ (PersistAfterExpire /\ last.after.at <= last.t1) =>
         /\ ~last.ok
         /\ db = last.pre
         /\ Get(db, last.key, now) = EmptyKey

C20_Witness_PersistInTime ==
    /\ PersistAfterExpire
    /\ last.after.at > last.t1
    /\ last.t1 = MaxTime
    /\ Get(last.pre, last.key, last.t1).etime = last.after.at

C20_Witness_PersistTooLate ==
    /\ PersistAfterExpire
    /\ last.after.at <= last.t1
    /\ \E r \in db.rkey : r.key = last.key

----------------------------------------------------------------------------
(* C21: deleteExpired(n) removes only rows that are expired at the time of  *)
(* the call (etime not null and etime <= now), never a live row; with n > 0 *)
(* it removes min(n, number of expired rows) of them, with n = 0 all of     *)
(* them, and it returns the number of rows removed.                         *)

ReapDone == last.op = "deleteExpired"

C21_ReapOnlyExpired ==
    ReapDone =>
        LET expired == {r \in last.pre.rkey : r.etime # NULL /\ r.etime <= last.t1}
            removed == last.pre.rkey \ db.rkey
            m == Cardinality(expired)
        IN  /\ db.rkey \subseteq last.pre.rkey
            /\ removed \subseteq expired
            /\ \A r \in removed : ~Live(r, last.t1)
            /\ last.count = Cardinality(removed)
            /\ last.n > 0 => last.count = (IF last.n < m THEN last.n ELSE m)
            /\ last.n = 0 => removed = expired
            /\ \A r \in db.rkey : Members(db, r.id) = Members(last.pre, r.id)

C21_Witness_ReapOneOfTwo ==
    /\ ReapDone
    /\ last.n = 1
    /\ last.count = 1
    /\ Cardinality({r \in last.pre.rkey : ~Live(r, last.t1)}) = 2
    /\ \E r \in db.rkey : ~Live(r, last.t1)

----------------------------------------------------------------------------
(* C22: Delete(names...) removes exactly the live records whose name is in  *)
(* the list and returns their number (absent and expired names count 0 and  *)
(* raise no error); every other record is unchanged.  DeleteType also       *)
(* leaves listed records of another type unchanged and uncounted.           *)

DeleteDone == last.op = "Delete"

DeleteTypeDone == last.op = "DeleteType"

\* the call removed the rows of gone with their members, and nothing else
RemovedExactly(gone) ==
    /\ db.rkey = last.pre.rkey \ gone
    /\ db.rzset = {m \in last.pre.rzset : \A r \in gone : m.key_id # r.id}
    /\ last.n = Cardinality(gone)

C22_DeleteFrame ==
    /\ DeleteDone =>
         RemovedExactly({r \in last.pre.rkey :
                            r.key \in last.keys /\ Live(r, last.t1)})
    /\ DeleteTypeDone =>
         RemovedExactly({r \in last.pre.rkey :
                            r.key \in last.keys /\ Live(r, last.t1) /\ r.type = last.typ})

C22_Witness_ExpiredListed ==
    /\ DeleteDone
    /\ last.keys = {"a", "b"}
    /\ last.n = 1
    /\ \E r \in db.rkey : r.key = "a" /\ ~Live(r, last.t1)
    /\ \E r \in last.pre.rkey : r.key = "b" /\ r.type = TypeSortedSet

C22_Witness_OtherTypeListed ==
    /\ DeleteTypeDone
    /\ last.keys = {"a", "b"}
    /\ last.n = 1
    /\ \E r \in db.rkey : r.key \in last.keys /\ Live(r, last.t1) /\ r.type # last.typ

----------------------------------------------------------------------------
(* C23: for every registry, source list and aggregate, source lists that    *)
(* name the destination included, a successful Store leaves the destination *)
(* holding exactly the items that Run with the same sources and aggregate   *)
(* returns on the registry as it was before the call, and returns their     *)
(* number: the destination's prior members take part when it is a source.   *)

StoredOk == StoreDone /\ ~last.fail /\ last.err = "nil"

C23_StoreEqualsRunOnPreState ==
    StoredOk =>
        LET q == Query(last.pre, last.c.kind, last.c.keys, last.c.agg, last.t2)
            k == Get(last.post, last.c.dest, last.t2)
        IN  /\ Members(last.post, k.id) = Range(q)
            /\ last.n = Len(q)

----------------------------------------------------------------------------
(* C24: Rename and RenameNotExists read the clock anew for the existence    *)
(* check, for the delete of the new name and for the final update; even     *)
(* when the clock advances in between so that the old key expires during    *)
(* the call, a success return (nil from Rename with old # new, true from    *)
(* RenameNotExists) implies that the old key's record is afterwards stored  *)
(* under the new name, and Rename never deletes the live record at the new  *)
(* name without moving the old record onto it.                              *)

\* the record Get found under the old name is now stored under the new name
MovedToNewName ==
    \E r \in db.rkey :
        r.key = last.newKey /\ r.id = Get(last.pre, last.key, last.t1).id

\* the call removed a record that was live under the new name
NewNameRecordDeleted ==
    \E r \in last.pre.rkey :
        /\ r.key = last.newKey
        /\ Live(r, last.t2)
        /\ r \notin db.rkey
        /\ r.id # Get(last.pre, last.key, last.t1).id

C24_SuccessMeansMoved ==
    /\ (RenameDone /\ last.err = "nil" /\ last.key # last.newKey) => MovedToNewName
    /\ (RenameDone /\ NewNameRecordDeleted) => MovedToNewName
    /\ (last.op = "RenameNotExists" /\ last.ok) => MovedToNewName

====
